---- MODULE Spec2Model ----
(***************************************************************************)
(* geogrid_to_tif.py: conversion of a WPS GEOGRID tile directory into one  *)
(* georeferenced raster.  The model follows main() statement by statement: *)
(* the index is read, the tile files are globbed and their bounds parsed   *)
(* from the names, the raster is created and georeferenced, and every tile *)
(* is decoded, reshaped, cropped and written.                              *)
(*                                                                         *)
(* Arrays are sequences (1-based); a Python index k is the TLA+ index k+1. *)
(* Degrees are modelled as integers (exact arithmetic on a fixed grid).    *)
(***************************************************************************)
EXTENDS Integers, Sequences, FiniteSets, TLC

VARIABLES
    index_file,   \* input: the (key, value) assignments of the index file, in file order
    directory,    \* input: the files of geog_dir, a set of [name, data]
    pc,           \* position of main()
    index,        \* the dictionary read_index returns
    tile_paths,   \* glob's result, in the order glob gave it
    tile_bounds,  \* one <<x_start, x_end, y_start, y_end>> per tile path
    x_size,
    y_size,
    ds,           \* the GDAL dataset behind output_path
    i,            \* position of the tile loop in tile_paths (1-based)
    tile,         \* the loop's local array `tile`
    writes        \* the WriteRaster calls made so far, in order

vars == <<index_file, directory, pc, index, tile_paths, tile_bounds,
          x_size, y_size, ds, i, tile, writes>>

(***************************************************************************)
(* Bounds of the model.                                                    *)
(***************************************************************************)
MaxCoord == 3
MaxTiles == 2

(***************************************************************************)
(* Generic helpers.                                                        *)
(***************************************************************************)
Range(s) == {s[k] : k \in DOMAIN s}

Max(S) == CHOOSE m \in S : \A n \in S : n <= m

Reverse(s) == [k \in 1..Len(s) |-> s[Len(s) + 1 - k]]

RECURSIVE Pow(_, _)
Pow(b, e) == IF e = 0 THEN 1 ELSE b * Pow(b, e - 1)

Perms(S) == {p \in [1..Cardinality(S) -> S] : \A a, b \in DOMAIN p : a # b => p[a] # p[b]}

(***************************************************************************)
(* read_index.  The text of a line is not modelled: index_file holds the   *)
(* assignments with their values already coerced by the field tables.      *)
(***************************************************************************)
IndexDefaults ==
    [filename_digits |-> 5, signed |-> FALSE, known_x |-> 1, known_y |-> 1,
     scale_factor |-> 1, endian |-> "big", tile_bdr |-> 0]

SetKey(d, k, v) == [x \in DOMAIN d \cup {k} |-> IF x = k THEN v ELSE d[x]]

RECURSIVE AssignAll(_, _)
AssignAll(d, lines) ==
    IF lines = <<>> THEN d
    ELSE AssignAll(SetKey(d, lines[1][1], lines[1][2]), Tail(lines))

IndexError == [error |-> "AssertionError"]

read_index(lines) ==
    LET idx == AssignAll(IndexDefaults, lines)
        has_start == "tile_z_start" \in DOMAIN idx
        has_end == "tile_z_end" \in DOMAIN idx
    IN  IF has_start \/ has_end
        THEN IF has_start /\ has_end
             THEN SetKey(idx, "tile_z", idx["tile_z_end"] - idx["tile_z_start"] + 1)
             ELSE IndexError
        ELSE idx

get_gdal_type(wordsize, signed) ==
    IF signed
    THEN <<"GDT_Int16", "GDT_Int16", "GDT_Int32", "GDT_Int32">>[wordsize]
    ELSE <<"GDT_Byte", "GDT_UInt16", "GDT_UInt32", "GDT_UInt32">>[wordsize]

(***************************************************************************)
(* 64-bit integers.  numba types num as int64, and a four-byte word needs  *)
(* 33 bits before the sign correction, so a number n is held as the pair   *)
(* <<hi, lo>> with n = hi * 65536 + lo and 0 <= lo < 65536.  Every sample  *)
(* of the model (tile, raster, WriteRaster data) is such a pair.           *)
(***************************************************************************)
WNorm(hi, lo) == <<hi + (lo \div 65536), lo % 65536>>

Wide(n) == WNorm(0, n)

WPow2(e) == IF e < 16 THEN <<0, Pow(2, e)>> ELSE <<Pow(2, e - 16), 0>>

WSub(a, b) == WNorm(a[1] - b[1], a[2] - b[2])

WGe(a, b) == a[1] > b[1] \/ (a[1] = b[1] /\ a[2] >= b[2])

\* (num << 8) | byte, for num >= 0 and byte in 0..255
WShiftOr(num, byte) == WNorm(num[1] * 256, num[2] * 256 + byte)

(***************************************************************************)
(* decode_geogrid_binary.  The function is compiled by numba without       *)
(* bounds checking, so when len(binary_str) is no multiple of wordsize the *)
(* last group reads past the end of the buffer: `past` is what lies there. *)
(***************************************************************************)
ByteAt(binary_str, past, k) ==
    IF k <= Len(binary_str) THEN binary_str[k] ELSE past[k - Len(binary_str)]

RECURSIVE AccumulateWord(_, _, _, _, _)
AccumulateWord(binary_str, past, start, n, num) ==
    \* the inner loop: num = (num << 8) | binary_str[start + i], bytes start+1..start+n
    IF n = 0 THEN num
    ELSE AccumulateWord(binary_str, past, start + 1, n - 1,
                        WShiftOr(num, ByteAt(binary_str, past, start + 1)))

\* the sign correction with > in place of >=
SignCorrect_Strict(num, wordsize, signed) ==
    IF signed /\ WGe(num, WPow2(8 * wordsize - 1)) /\ num # WPow2(8 * wordsize - 1)
    THEN WSub(num, WPow2(8 * wordsize))
    ELSE num

SignCorrect(num, wordsize, signed) ==
    IF signed /\ WGe(num, WPow2(8 * wordsize - 1))
    THEN WSub(num, WPow2(8 * wordsize))
    ELSE num

NumWords(len, wordsize) == (len + wordsize - 1) \div wordsize

decode_geogrid_binary(binary_str, wordsize, signed, past) ==
    [w \in 1..NumWords(Len(binary_str), wordsize) |->
        SignCorrect(AccumulateWord(binary_str, past, (w - 1) * wordsize, wordsize, Wide(0)),
                    wordsize, signed)]

\* how many bytes the last group reads past the end of the buffer
Overrun(len, wordsize) == NumWords(len, wordsize) * wordsize - len

(***************************************************************************)
(* numpy reshape, border crop, row reversal.                               *)
(***************************************************************************)
Reshape3(flat, nz, ny, nx) ==
    [b \in 1..nz |-> [r \in 1..ny |-> [c \in 1..nx |->
        flat[(b - 1) * ny * nx + (r - 1) * nx + c]]]]

\* the crop taken from the trailing edge only, s[:-2 * bdr]
SliceBorder_Trailing(s, bdr) == SubSeq(s, 1, Len(s) - 2 * bdr)

\* s[bdr:-bdr]
SliceBorder(s, bdr) == SubSeq(s, bdr + 1, Len(s) - bdr)

CropBorder(t, bdr) ==
    IF bdr > 0
    THEN [b \in 1..Len(t) |->
            LET rows == SliceBorder(t[b], bdr)
            IN  [r \in 1..Len(rows) |-> SliceBorder(rows[r], bdr)]]
    ELSE t

\* tile[:, ::-1]
ReverseRows(t) == [b \in 1..Len(t) |-> Reverse(t[b])]

(***************************************************************************)
(* Tile file names.                                                        *)
(***************************************************************************)
Digits == <<"0", "1", "2", "3", "4", "5", "6", "7", "8", "9">>

DigitValue(ch) == (CHOOSE d \in 1..10 : Digits[d] = ch) - 1

RECURSIVE ParseInt(_)
ParseInt(s) ==
    \* int() of a string of decimal digits
    IF s = <<>> THEN 0
    ELSE 10 * ParseInt(SubSeq(s, 1, Len(s) - 1)) + DigitValue(s[Len(s)])

\* glob's "?????-?????.?????-?????" (width 5) or its six-wide form
GlobWidth(filename_digits) == IF filename_digits = 5 THEN 5 ELSE 6

GlobMatches(name, filename_digits) ==
    LET w == GlobWidth(filename_digits)
    IN  /\ Len(name) = 4 * w + 3
        /\ name[w + 1] = "-"
        /\ name[2 * w + 2] = "."
        /\ name[3 * w + 3] = "-"

\* the slices ended one character early
BoundsOfName_ShortSlice(basename, filename_digits) ==
    [x \in 1..4 |->
        ParseInt(SubSeq(basename, (x - 1) * (filename_digits + 1) + 1,
                        x * (filename_digits + 1) - 2))]

\* basename[x * (digits + 1) : (x + 1) * (digits + 1) - 1] for x in range(4)
BoundsOfName(basename, filename_digits) ==
    [x \in 1..4 |->
        ParseInt(SubSeq(basename, (x - 1) * (filename_digits + 1) + 1,
                        x * (filename_digits + 1) - 1))]

FileData(name) == (CHOOSE f \in directory : f.name = name).data

(***************************************************************************)
(* Affine (the affine package): <<a, b, c, d, e, f>> maps (x, y) to        *)
(* (a*x + b*y + c, d*x + e*y + f).                                         *)
(***************************************************************************)
AffineTranslation(xoff, yoff) == <<1, 0, xoff, 0, 1, yoff>>

AffineScale(sx, sy) == <<sx, 0, 0, 0, sy, 0>>

AffineMul(m, n) ==
    <<m[1] * n[1] + m[2] * n[4], m[1] * n[2] + m[2] * n[5], m[1] * n[3] + m[2] * n[6] + m[3],
      m[4] * n[1] + m[5] * n[4], m[4] * n[2] + m[5] * n[5], m[4] * n[3] + m[5] * n[6] + m[6]>>

AffineApply(m, x, y) == <<m[1] * x + m[2] * y + m[3], m[4] * x + m[5] * y + m[6]>>

SourceAffine(idx) ==
    AffineMul(AffineMul(AffineTranslation(idx["known_lon"], idx["known_lat"]),
                        AffineScale(idx["dx"], idx["dy"])),
              AffineTranslation(-idx["known_x"], -idx["known_y"]))

is_top_to_bottom == index["dy"] < 0

\* the transform anchored at (1, 1) with height dy whatever the row order
GeoTransformOf_NoFlip(idx, ysize) ==
    LET ul == AffineApply(SourceAffine(idx), 1, 1)
    IN  <<ul[1], idx["dx"], 0, ul[2], 0, idx["dy"]>>

GeoTransformOf(idx, ysize) ==
    IF idx["dy"] < 0
    THEN LET ul == AffineApply(SourceAffine(idx), 1, 1)
         IN  <<ul[1], idx["dx"], 0, ul[2], 0, idx["dy"]>>
    ELSE LET ul == AffineApply(SourceAffine(idx), 1, ysize)
         IN  <<ul[1], idx["dx"], 0, ul[2], 0, -idx["dy"]>>

(***************************************************************************)
(* The raster behind the dataset.  driver.Create gives a zero-filled       *)
(* raster; WriteRaster replaces a window, and GDAL refuses a window that   *)
(* is not inside the raster (the call returns an error the code ignores).  *)
(***************************************************************************)
NoDataset ==
    [state |-> "none", x_size |-> 0, y_size |-> 0, type |-> "", srs |-> 0,
     gt |-> <<>>, gt_sets |-> 0, scale |-> <<>>, nodata |-> <<>>, raster |-> <<>>]

BlankRaster(nz, ny, nx) == [b \in 1..nz |-> [r \in 1..ny |-> [c \in 1..nx |-> Wide(0)]]]

WindowInside(raster, band, x_off, y_off, xs, ys) ==
    /\ band \in 1..Len(raster)
    /\ x_off >= 0
    /\ y_off >= 0
    /\ y_off + ys <= Len(raster[band])
    /\ \A r \in 1..Len(raster[band]) : x_off + xs <= Len(raster[band][r])

WriteRaster(raster, band, x_off, y_off, xs, ys, data) ==
    IF WindowInside(raster, band, x_off, y_off, xs, ys)
    THEN [raster EXCEPT ![band] =
            [r \in 1..Len(@) |-> [c \in 1..Len(@[r]) |->
                IF r - y_off \in 1..ys /\ c - x_off \in 1..xs
                THEN data[r - y_off][c - x_off]
                ELSE @[r][c]]]]
    ELSE raster

\* the bottom-to-top offset taken from y_start in place of y_end
PlaceOffset_FromYStart(bounds, ysize, top_to_bottom) ==
    IF top_to_bottom
    THEN <<bounds[1] - 1, bounds[3] - 1>>
    ELSE <<bounds[1] - 1, ysize - bounds[3]>>

\* the x offset taken from y_start in place of x_start
PlaceOffset_XFromY(bounds, ysize, top_to_bottom) ==
    IF top_to_bottom
    THEN <<bounds[3] - 1, bounds[3] - 1>>
    ELSE <<bounds[3] - 1, ysize - bounds[4]>>

PlaceOffset(bounds, ysize, top_to_bottom) ==
    IF top_to_bottom
    THEN <<bounds[1] - 1, bounds[3] - 1>>
    ELSE <<bounds[1] - 1, ysize - bounds[4]>>

\* the rows never reversed
PlaceRows_NoReverse(t, top_to_bottom) == t

PlaceRows(t, top_to_bottom) == IF top_to_bottom THEN t ELSE ReverseRows(t)

\* the WriteRaster calls of one tile, one per (band, z_slice) of zip(bands, tile)
TileWrites(path, bounds, t, ysize, top_to_bottom, nbands, tx, ty) ==
    LET off == PlaceOffset(bounds, ysize, top_to_bottom)
        placed == PlaceRows(t, top_to_bottom)
        n == IF Len(placed) < nbands THEN Len(placed) ELSE nbands
    IN  [b \in 1..n |->
            [path |-> path, bounds |-> bounds, band |-> b,
             x_off |-> off[1], y_off |-> off[2], xsize |-> tx, ysize |-> ty,
             data |-> placed[b]]]

RECURSIVE ApplyWrites(_, _)
ApplyWrites(raster, ws) ==
    IF ws = <<>> THEN raster
    ELSE ApplyWrites(WriteRaster(raster, ws[1].band, ws[1].x_off, ws[1].y_off,
                                 ws[1].xsize, ws[1].ysize, ws[1].data),
                     Tail(ws))


(***************************************************************************)
(* Inputs.  A scenario fixes the index file and the tile files of one      *)
(* dataset directory; the specifications below differ only in the          *)
(* scenarios they start from.                                              *)
(***************************************************************************)
FormatField(n, w) == [k \in 1..w |-> Digits[((n \div Pow(10, w - k)) % 10) + 1]]

TileName(b, w) ==
    FormatField(b[1], w) \o <<"-">> \o FormatField(b[2], w) \o <<".">>
        \o FormatField(b[3], w) \o <<"-">> \o FormatField(b[4], w)

\* the k-th byte (1 = least significant) of the non-negative wide number u
WByte(u, k) ==
    IF k <= 2 THEN (u[2] \div Pow(256, k - 1)) % 256 ELSE (u[1] \div Pow(256, k - 3)) % 256

\* one sample as wordsize bytes, most significant first, two's complement
EncodeWord(v, wordsize) ==
    LET u == IF v[1] < 0 THEN WSub(v, WSub(Wide(0), WPow2(8 * wordsize))) ELSE v
    IN  [k \in 1..wordsize |-> WByte(u, wordsize + 1 - k)]

RECURSIVE Encode(_, _)
Encode(vals, wordsize) ==
    IF vals = <<>> THEN <<>>
    ELSE EncodeWord(vals[1], wordsize) \o Encode(Tail(vals), wordsize)

Opt(cond, line) == IF cond THEN <<line>> ELSE <<>>

\* the assignments of the index file of a scenario; a key whose value is the
\* default is left out of the file
IndexLines(sc) ==
    <<  <<"type", "continuous">>,
        <<"projection", sc.projection>>,
        <<"dx", sc.dx>>,
        <<"dy", sc.dy>>,
        <<"known_lat", sc.known_lat>>,
        <<"known_lon", sc.known_lon>>,
        <<"wordsize", sc.wordsize>>,
        <<"tile_x", sc.tile_x>>,
        <<"tile_y", sc.tile_y>> >>
    \o Opt(sc.zmode = "tile_z", <<"tile_z", sc.tile_z>>)
    \o Opt(sc.zmode \in {"range", "start_only"}, <<"tile_z_start", 1>>)
    \o Opt(sc.zmode = "range", <<"tile_z_end", sc.tile_z>>)
    \o Opt(sc.known_x # 1, <<"known_x", sc.known_x>>)
    \o Opt(sc.known_y # 1, <<"known_y", sc.known_y>>)
    \o Opt(sc.signed, <<"signed", TRUE>>)
    \o Opt(sc.tile_bdr # 0, <<"tile_bdr", sc.tile_bdr>>)
    \o Opt(sc.filename_digits # 5, <<"filename_digits", sc.filename_digits>>)
    \o Opt(sc.has_missing, <<"missing_value", sc.missing_value>>)

IndexFileEntry == [name |-> <<"i", "n", "d", "e", "x">>, data |-> <<>>]

\* sc.tiles is a set of [bounds, data]
DirectoryOf(sc) ==
    {IndexFileEntry} \cup
    {[name |-> TileName(t.bounds, sc.filename_digits), data |-> t.data] : t \in sc.tiles}

BaseScenario ==
    [projection |-> "regular_ll", dx |-> 1, dy |-> -1, known_x |-> 1, known_y |-> 1,
     known_lat |-> 0, known_lon |-> 0, wordsize |-> 1, signed |-> FALSE,
     tile_x |-> 1, tile_y |-> 1, tile_z |-> 1, zmode |-> "tile_z", tile_bdr |-> 0,
     filename_digits |-> 5, has_missing |-> FALSE, missing_value |-> 255, tiles |-> {}]

ExpectedSamples(sc) ==
    sc.tile_z * (sc.tile_y + 2 * sc.tile_bdr) * (sc.tile_x + 2 * sc.tile_bdr)

\* a payload of n bytes: base+1, base+2, ... (mod 256)
PatternBytes(n, base) == [k \in 1..n |-> (base + k) % 256]

InitFrom(Scenarios) ==
    /\ \E sc \in Scenarios :
          /\ index_file = IndexLines(sc)
          /\ directory = DirectoryOf(sc)
    /\ pc = "read_index"
    /\ index = <<>>
    /\ tile_paths = <<>>
    /\ tile_bounds = <<>>
    /\ x_size = 0
    /\ y_size = 0
    /\ ds = NoDataset
    /\ i = 0
    /\ tile = <<>>
    /\ writes = <<>>

RECURSIVE SmallSubsets(_, _)
\* subsets of S with at most n elements
SmallSubsets(S, n) ==
    IF n = 0 THEN {{}}
    ELSE LET smaller == SmallSubsets(S, n - 1)
         IN  smaller \cup {T \cup {x} : T \in smaller, x \in S}

(***************************************************************************)
(* Spec: whole runs, good and bad.  The tiles lie side by side in one row; *)
(* every tile file has the expected length or is whole words short or      *)
(* long.                                                                   *)
(***************************************************************************)
WordDeltas(wordsize) == {0, -wordsize, wordsize}

RowBounds(k, tx, ty) == <<(k - 1) * tx + 1, k * tx, 1, ty>>

\* one tile set per choice of the tiles present and of a length change for each
RowTileSets(sc, Deltas) ==
    LET n == ExpectedSamples(sc) * sc.wordsize
        choices == UNION {[present -> Deltas] : present \in SUBSET (1..MaxTiles)}
    IN  {{[bounds |-> RowBounds(k, sc.tile_x, sc.tile_y),
           data |-> PatternBytes(n + f[k], 16 * k)] : k \in DOMAIN f} : f \in choices}

RunIndexes ==
    {[BaseScenario EXCEPT !.wordsize = ws, !.tile_x = 2, !.tile_z = tz, !.zmode = zm,
                          !.tile_bdr = bdr, !.dy = dy]
        : ws \in {1, 2}, tz \in {1, 2}, zm \in {"tile_z", "range"}, bdr \in {0, 1},
          dy \in {-1, 1}}

BadIndexes ==
    {[BaseScenario EXCEPT !.projection = "lambert"],
     [BaseScenario EXCEPT !.dx = 0],
     [BaseScenario EXCEPT !.dx = -1],
     [BaseScenario EXCEPT !.zmode = "start_only"]}

WithTiles(sc, TileSets) == {[sc EXCEPT !.tiles = ts] : ts \in TileSets}

RunScenarios ==
    UNION {WithTiles(sc, RowTileSets(sc, WordDeltas(sc.wordsize)))
             : sc \in RunIndexes \cup BadIndexes}

(***************************************************************************)
(* SpecTruncated: words of two to four bytes, and tile files that are a    *)
(* byte or a word short or a byte long.                                    *)
(***************************************************************************)
ByteDeltas(wordsize) == {0, -1, 1, -wordsize}

TruncatedIndexes ==
    {[BaseScenario EXCEPT !.wordsize = ws, !.signed = sg, !.tile_x = 2, !.tile_bdr = bdr]
        : ws \in {2, 3, 4}, sg \in BOOLEAN, bdr \in {0, 1}}

TruncatedScenarios ==
    UNION {WithTiles(sc, RowTileSets(sc, ByteDeltas(sc.wordsize))) : sc \in TruncatedIndexes}


(***************************************************************************)
(* SpecPlace: tiles anywhere on a small grid, overlapping or not, with     *)
(* bounds that match the tile size or do not; every payload is complete.   *)
(***************************************************************************)
PlaceCandidates(tx, ty) ==
    {<<xs, xs + tx - 1, ys, ys + ty - 1>> : xs \in 1..MaxCoord, ys \in 1..MaxCoord}
    \cup {<<1, tx - 1, 1, ty>>,          \* x_end too small
          <<1, tx, 1, ty + 1>>,          \* y_end too large
          <<0, tx - 1, 1, ty>>,          \* x_start of 0
          <<1, tx, 0, ty - 1>>}          \* y_start of 0

PlaceTileSets(sc) ==
    LET n == ExpectedSamples(sc) * sc.wordsize
    IN  {{[bounds |-> b, data |-> PatternBytes(n, 40 * b[1] + 10 * b[3])] : b \in B}
            : B \in SmallSubsets(PlaceCandidates(sc.tile_x, sc.tile_y), MaxTiles)}

PlaceIndexes ==
    {[BaseScenario EXCEPT !.tile_x = 2, !.tile_y = 2, !.tile_z = 2, !.dy = dy]
        : dy \in {-1, 0}}
    \cup {[BaseScenario EXCEPT !.tile_x = 1, !.tile_y = 2, !.tile_z = 2, !.dy = 1]}

PlaceScenarios == UNION {WithTiles(sc, PlaceTileSets(sc)) : sc \in PlaceIndexes}

(***************************************************************************)
(* SpecCatalog: 3 x 3 tiles named with five or six digits per field, at    *)
(* one- and two-digit coordinates.                                         *)
(***************************************************************************)
CatalogCandidates ==
    {<<xs, xs + w - 1, ys, ys + 2>> : xs \in {1, 4, 10}, ys \in {1, 7}, w \in {3, 4}}

CatalogTileSets(sc) ==
    {{[bounds |-> b, data |-> PatternBytes(ExpectedSamples(sc), b[1] + b[3])] : b \in B}
        : B \in SmallSubsets(CatalogCandidates, MaxTiles)}

CatalogIndexes ==
    {[BaseScenario EXCEPT !.tile_x = 3, !.tile_y = 3, !.filename_digits = fd, !.dy = dy]
        : fd \in {5, 6}, dy \in {-1, 1}}

CatalogScenarios == UNION {WithTiles(sc, CatalogTileSets(sc)) : sc \in CatalogIndexes}

(***************************************************************************)
(* SpecGeo: every combination of the georeferencing fields, over a column  *)
(* of well-formed tiles.                                                   *)
(***************************************************************************)
ColumnBounds(k, tx, ty) == <<1, tx, (k - 1) * ty + 1, k * ty>>

GeoTileSets(sc) ==
    {{[bounds |-> ColumnBounds(k, sc.tile_x, sc.tile_y),
       data |-> PatternBytes(ExpectedSamples(sc), 16 * k)] : k \in K}
        : K \in SUBSET (1..MaxTiles)}

GeoIndexes ==
    {[BaseScenario EXCEPT !.tile_x = 2, !.tile_y = 2, !.dx = dx, !.dy = dy,
                          !.known_x = kx, !.known_y = ky,
                          !.known_lon = lon, !.known_lat = lat]
        : dx \in {1, 3}, dy \in {-2, 0, 1}, kx \in {1, 2}, ky \in {1, 3},
          lon \in {0, 10}, lat \in {0, -5}}

GeoScenarios == UNION {WithTiles(sc, GeoTileSets(sc)) : sc \in GeoIndexes}

(***************************************************************************)
(* SpecDecode: one tile that is a row of samples, encoded from integers at *)
(* the edges of the range of every word size and signedness.               *)
(***************************************************************************)
MaxSamples == 2

SampleValues(wordsize, signed) ==
    LET half == WPow2(8 * wordsize - 1)
        full == WPow2(8 * wordsize)
        zero == Wide(0)
        one == Wide(1)
    IN  IF signed
        THEN {WSub(zero, half), WSub(one, half), Wide(-1), zero, one,
              WSub(half, Wide(2)), WSub(half, one)}
        ELSE {zero, one, WSub(half, one), half, WSub(full, Wide(2)), WSub(full, one)}

SampleArrays(wordsize, signed) ==
    UNION {[1..n -> SampleValues(wordsize, signed)] : n \in 1..MaxSamples}

DecodeScenarios ==
    UNION {{[BaseScenario EXCEPT
                !.wordsize = ws, !.signed = sg, !.tile_x = Len(vals),
                !.tiles = {[bounds |-> RowBounds(1, Len(vals), 1),
                            data |-> Encode(vals, ws)]}]
              : vals \in SampleArrays(ws, sg)}
           : ws \in 1..4, sg \in BOOLEAN}

(***************************************************************************)
(* SpecBorder: one tile of single-byte samples with a border of 0, 1, ...  *)
(* cells around it.                                                        *)
(***************************************************************************)
MaxBorder == 2

BorderScenarios ==
    UNION {{[sc EXCEPT !.tiles = {[bounds |-> RowBounds(1, sc.tile_x, sc.tile_y),
                                   data |-> PatternBytes(ExpectedSamples(sc), base)]}]
              : base \in {0, 200}}
           : sc \in {[BaseScenario EXCEPT !.tile_x = d[1], !.tile_y = d[2], !.tile_z = tz,
                                          !.tile_bdr = bdr, !.has_missing = hm]
                        : d \in {<<1, 1>>, <<2, 1>>, <<2, 2>>}, tz \in {1, 2},
                          bdr \in 0..MaxBorder, hm \in BOOLEAN}}

(***************************************************************************)
(* main(), one action per statement group.                                 *)
(***************************************************************************)
Abort ==
    \* an exception leaves main(): nothing after the raising statement runs
    /\ pc' = "failed"
    /\ UNCHANGED <<index, tile_paths, tile_bounds, x_size, y_size, ds, i, tile, writes>>

ReadIndex ==
    /\ pc = "read_index"
    /\ UNCHANGED <<index_file, directory>>
    /\ IF read_index(index_file) = IndexError
       THEN Abort
       ELSE /\ index' = read_index(index_file)
            /\ pc' = "check"
            /\ UNCHANGED <<tile_paths, tile_bounds, x_size, y_size, ds, i, tile, writes>>

CheckIndex ==
    /\ pc = "check"
    /\ UNCHANGED <<index_file, directory>>
    /\ IF index["projection"] = "regular_ll" /\ index["dx"] > 0
       THEN /\ pc' = "glob"
            /\ UNCHANGED <<index, tile_paths, tile_bounds, x_size, y_size, ds, i, tile, writes>>
       ELSE Abort

Glob ==
    /\ pc = "glob"
    /\ UNCHANGED <<index_file, directory>>
    /\ LET matching == {f.name : f \in {g \in directory :
                                        GlobMatches(g.name, index["filename_digits"])}}
       IN  \E order \in Perms(matching) :
             /\ tile_paths' = order
             /\ pc' = "bounds"
             /\ UNCHANGED <<index, tile_bounds, x_size, y_size, ds, i, tile, writes>>

CanvasSize ==
    /\ pc = "bounds"
    /\ UNCHANGED <<index_file, directory>>
    /\ LET bounds == [k \in 1..Len(tile_paths) |->
                        BoundsOfName(tile_paths[k], index["filename_digits"])]
       IN  IF bounds = <<>>
           THEN Abort      \* tile_bounds[:, 1] of an empty array raises IndexError
           ELSE /\ tile_bounds' = bounds
                /\ x_size' = Max({bounds[k][2] : k \in 1..Len(bounds)})
                /\ y_size' = Max({bounds[k][4] : k \in 1..Len(bounds)})
                /\ pc' = "create"
                /\ UNCHANGED <<index, tile_paths, ds, i, tile, writes>>

Create ==
    /\ pc = "create"
    /\ UNCHANGED <<index_file, directory>>
    /\ ds' = [NoDataset EXCEPT
                !.state = "open",
                !.x_size = x_size,
                !.y_size = y_size,
                !.type = get_gdal_type(index["wordsize"], index["signed"]),
                !.srs = 4326,
                !.raster = BlankRaster(index["tile_z"], y_size, x_size)]
    /\ pc' = "geotransform"
    /\ UNCHANGED <<index, tile_paths, tile_bounds, x_size, y_size, i, tile, writes>>

\* the geotransform left unset
SetGeoTransform_Omitted ==
    /\ pc = "geotransform"
    /\ pc' = "bands"
    /\ UNCHANGED <<index_file, directory, index, tile_paths, tile_bounds, x_size, y_size,
                   ds, i, tile, writes>>

SetGeoTransform ==
    /\ pc = "geotransform"
    /\ UNCHANGED <<index_file, directory>>
    /\ ds' = [ds EXCEPT !.gt = GeoTransformOf(index, y_size), !.gt_sets = @ + 1]
    /\ pc' = "bands"
    /\ UNCHANGED <<index, tile_paths, tile_bounds, x_size, y_size, i, tile, writes>>

SetupBands ==
    /\ pc = "bands"
    /\ UNCHANGED <<index_file, directory>>
    /\ ds' = [ds EXCEPT
                !.scale = [b \in 1..index["tile_z"] |-> index["scale_factor"]],
                !.nodata = IF "missing_value" \in DOMAIN index
                           THEN [b \in 1..index["tile_z"] |-> index["missing_value"]]
                           ELSE <<>>]
    /\ i' = 1
    /\ pc' = "loop"
    /\ UNCHANGED <<index, tile_paths, tile_bounds, x_size, y_size, tile, writes>>

GarbageBytes == {0, 255}

ReadDecode ==
    /\ pc = "loop"
    /\ i <= Len(tile_paths)
    /\ UNCHANGED <<index_file, directory>>
    /\ LET data == FileData(tile_paths[i])
           over == Overrun(Len(data), index["wordsize"])
       IN  \E faults \in (IF over > 0 THEN BOOLEAN ELSE {FALSE}) :
           \E past \in [1..over -> GarbageBytes] :
             IF faults
             THEN Abort      \* the read past the buffer hits unmapped memory
             ELSE /\ tile' = decode_geogrid_binary(data, index["wordsize"],
                                                   index["signed"], past)
                  /\ pc' = "reshape"
                  /\ UNCHANGED <<index, tile_paths, tile_bounds, x_size, y_size, ds, i, writes>>

Reshape ==
    /\ pc = "reshape"
    /\ UNCHANGED <<index_file, directory>>
    /\ LET nz == index["tile_z"]
           ny == index["tile_y"] + 2 * index["tile_bdr"]
           nx == index["tile_x"] + 2 * index["tile_bdr"]
       IN  IF Len(tile) = nz * ny * nx
           THEN /\ tile' = Reshape3(tile, nz, ny, nx)
                /\ pc' = "crop"
                /\ UNCHANGED <<index, tile_paths, tile_bounds, x_size, y_size, ds, i, writes>>
           ELSE Abort      \* ValueError: cannot reshape array

Crop ==
    /\ pc = "crop"
    /\ UNCHANGED <<index_file, directory>>
    /\ tile' = CropBorder(tile, index["tile_bdr"])
    /\ pc' = "place"
    /\ UNCHANGED <<index, tile_paths, tile_bounds, x_size, y_size, ds, i, writes>>

Place ==
    /\ pc = "place"
    /\ UNCHANGED <<index_file, directory>>
    /\ LET calls == TileWrites(tile_paths[i], tile_bounds[i], tile, y_size, is_top_to_bottom,
                               index["tile_z"], index["tile_x"], index["tile_y"])
       IN  /\ writes' = writes \o calls
           /\ ds' = [ds EXCEPT !.raster = ApplyWrites(@, calls)]
    /\ i' = i + 1
    /\ pc' = "loop"
    /\ UNCHANGED <<index, tile_paths, tile_bounds, x_size, y_size, tile>>

Close ==
    /\ pc = "loop"
    /\ i > Len(tile_paths)
    /\ UNCHANGED <<index_file, directory>>
    /\ ds' = [ds EXCEPT !.state = "closed"]
    /\ pc' = "done"
    /\ UNCHANGED <<index, tile_paths, tile_bounds, x_size, y_size, i, tile, writes>>

Next ==
    \/ ReadIndex
    \/ CheckIndex
    \/ Glob
    \/ CanvasSize
    \/ Create
    \/ SetGeoTransform
    \/ SetupBands
    \/ ReadDecode
    \/ Reshape
    \/ Crop
    \/ Place
    \/ Close

Init == InitFrom(RunScenarios)

Spec == Init /\ [][Next]_vars

InitTruncated == InitFrom(TruncatedScenarios)

SpecTruncated == InitTruncated /\ [][Next]_vars

InitPlace == InitFrom(PlaceScenarios)

SpecPlace == InitPlace /\ [][Next]_vars

InitCatalog == InitFrom(CatalogScenarios)

SpecCatalog == InitCatalog /\ [][Next]_vars

InitGeo == InitFrom(GeoScenarios)

SpecGeo == InitGeo /\ [][Next]_vars

InitDecode == InitFrom(DecodeScenarios)

SpecDecode == InitDecode /\ [][Next]_vars

InitBorder == InitFrom(BorderScenarios)

SpecBorder == InitBorder /\ [][Next]_vars

(***************************************************************************)
(* Vocabulary of the properties.                                           *)
(***************************************************************************)
FullRows == index["tile_y"] + 2 * index["tile_bdr"]

FullCols == index["tile_x"] + 2 * index["tile_bdr"]

ExpectedBytes == index["tile_z"] * FullRows * FullCols * index["wordsize"]

\* the tile a complete payload decodes to
DecodedOf(data) ==
    CropBorder(Reshape3(decode_geogrid_binary(data, index["wordsize"], index["signed"], <<>>),
                        index["tile_z"], FullRows, FullCols),
               index["tile_bdr"])

WellFormed(b) ==
    /\ 1 <= b[1]
    /\ 1 <= b[3]
    /\ b[2] - b[1] + 1 = index["tile_x"]
    /\ b[4] - b[3] + 1 = index["tile_y"]

BoundsDisjoint(a, b) == a[2] < b[1] \/ b[2] < a[1] \/ a[4] < b[3] \/ b[4] < a[3]

WritesOfTile(k) == SelectSeq(writes, LAMBDA w : w.path = tile_paths[k])

RECURSIVE WritesInOrder(_, _)
WritesInOrder(order, k) ==
    IF k > Len(order) THEN <<>>
    ELSE WritesOfTile(order[k]) \o WritesInOrder(order, k + 1)

\* the raster the sink holds when the tiles are processed in the given order
MosaicInOrder(order) ==
    ApplyWrites(BlankRaster(index["tile_z"], y_size, x_size), WritesInOrder(order, 1))

TileNames == {f.name : f \in directory} \ {IndexFileEntry.name}

RECURSIVE FieldValue(_, _, _)
\* the decimal number written in the w characters of name that follow position at
FieldValue(name, at, w) ==
    IF w = 0 THEN 0
    ELSE DigitValue(name[at + 1]) * Pow(10, w - 1) + FieldValue(name, at + 1, w - 1)

NameField(name, k) ==
    FieldValue(name, (k - 1) * (index["filename_digits"] + 1), index["filename_digits"])

BeforeCanvas == {"read_index", "check", "glob", "bounds"}

(***************************************************************************)
(* C1  Round-trip decode: the bytes that encode a sequence of integers as  *)
(* big-endian words (two's complement when signed) decode to that same     *)
(* sequence, for every word size 1..4 and either signedness; signed        *)
(* two-byte 80 00 is -32768, FF FF is -1 and 7F FF is 32767.               *)
(***************************************************************************)
RoundTripDecode ==
    /\ decode_geogrid_binary(<<128, 0>>, 2, TRUE, <<>>) = <<Wide(-32768)>>
    /\ decode_geogrid_binary(<<255, 255>>, 2, TRUE, <<>>) = <<Wide(-1)>>
    /\ decode_geogrid_binary(<<127, 255>>, 2, TRUE, <<>>) = <<Wide(32767)>>
    /\ pc = "reshape" =>
         \A vals \in SampleArrays(index["wordsize"], index["signed"]) :
            Encode(vals, index["wordsize"]) = FileData(tile_paths[i]) => tile = vals

RoundTripDecodeWitness ==
    /\ pc = "reshape"
    /\ index["wordsize"] = 4
    /\ ~index["signed"]
    /\ FileData(tile_paths[i]) = <<255, 255, 255, 255, 128, 0, 0, 0>>
    /\ tile = <<WSub(WPow2(32), Wide(1)), WPow2(31)>>

(***************************************************************************)
(* C2  Orientation placement: every WriteRaster call of a tile has block   *)
(* size (tile_x, tile_y) and x offset x_start - 1; for dy < 0 its y offset *)
(* is y_start - 1 and its rows are the decoded rows in order, for dy >= 0  *)
(* its y offset is y_size - y_end and its rows are the decoded rows in     *)
(* reverse; columns and bands keep their order, and every band of a        *)
(* processed tile is written.                                              *)
(***************************************************************************)
OrientationPlacement ==
    /\ \A k \in 1..Len(writes) :
         LET w == writes[k]
             b == w.bounds
             t == DecodedOf(FileData(w.path))
         IN  /\ w.xsize = index["tile_x"]
             /\ w.ysize = index["tile_y"]
             /\ Len(w.data) = index["tile_y"]
             /\ w.x_off = b[1] - 1
             /\ w.y_off = IF index["dy"] < 0 THEN b[3] - 1 ELSE y_size - b[4]
             /\ \A r \in 1..index["tile_y"] :
                  /\ Len(w.data[r]) = index["tile_x"]
                  /\ \A c \in 1..index["tile_x"] :
                       w.data[r][c] = IF index["dy"] < 0
                                      THEN t[w.band][r][c]
                                      ELSE t[w.band][index["tile_y"] + 1 - r][c]
    /\ pc \in {"loop", "reshape", "crop", "place", "done"} =>
         \A j \in 1..(i - 1) : \A band \in 1..index["tile_z"] :
            \E k \in 1..Len(writes) :
               /\ writes[k].path = tile_paths[j]
               /\ writes[k].bounds = tile_bounds[j]
               /\ writes[k].band = band

OrientationPlacementWitness ==
    /\ pc = "done"
    /\ index["dy"] = 0
    /\ y_size = 4
    /\ \E k \in 1..Len(writes) :
         /\ writes[k].band = 2
         /\ writes[k].bounds = <<2, 3, 2, 3>>
         /\ writes[k].x_off = 1
         /\ writes[k].y_off = 1
         /\ writes[k].data[1] # writes[k].data[2]
         /\ writes[k].data[1] = DecodedOf(FileData(writes[k].path))[2][2]

(***************************************************************************)
(* C3  Placement is order-independent.  As claimed: whatever tile files    *)
(* the directory holds, processing them in any order leaves the same       *)
(* raster as the order the run took.                                       *)
(***************************************************************************)
OrderIndependentAnyDataset ==
    pc = "done" =>
        \A order \in Perms(1..Len(tile_paths)) : MosaicInOrder(order) = ds.raster

TilesWellFormedDisjoint ==
    /\ \A k \in 1..Len(tile_bounds) : WellFormed(tile_bounds[k])
    /\ \A j, k \in 1..Len(tile_bounds) :
         j # k => BoundsDisjoint(tile_bounds[j], tile_bounds[k])

(***************************************************************************)
(* C3, amended  When the bounds of every tile match the tile size, start   *)
(* at 1 or above and are pairwise disjoint, processing the tiles in any    *)
(* order leaves the same raster as the order the run took.                 *)
(***************************************************************************)
OrderIndependentDisjoint ==
    (pc = "done" /\ TilesWellFormedDisjoint) =>
        \A order \in Perms(1..Len(tile_paths)) : MosaicInOrder(order) = ds.raster

OrderIndependentWitness ==
    /\ pc = "done"
    /\ TilesWellFormedDisjoint
    /\ Len(tile_paths) = 2
    /\ tile_bounds[1][1] > tile_bounds[2][1]
    /\ ds.raster # BlankRaster(index["tile_z"], y_size, x_size)
    /\ MosaicInOrder(<<2, 1>>) = ds.raster

(***************************************************************************)
(* C4  Truncated tile detection: no block is written for a tile file whose *)
(* length is not tile_z * (tile_y + 2 tile_bdr) * (tile_x + 2 tile_bdr) *  *)
(* wordsize bytes, and such a tile never gets past the reshape.            *)
(***************************************************************************)
TruncatedTileRejected ==
    /\ \A k \in 1..Len(writes) : Len(FileData(writes[k].path)) = ExpectedBytes
    /\ pc \in {"crop", "place"} => Len(FileData(tile_paths[i])) = ExpectedBytes

(***************************************************************************)
(* C5  No partial output on failure: when the run has failed, the output   *)
(* raster either was never created or has been discarded.                  *)
(***************************************************************************)
NoPartialOutputOnFailure ==
    pc = "failed" => ds.state \in {"none", "discarded"}

(***************************************************************************)
(* C6  Geotransform ordering: the geotransform is never set twice, it has  *)
(* been set once by the time any block is written and when the run is      *)
(* done, and no later step changes it.                                     *)
(***************************************************************************)
GeoTransformOnce ==
    /\ [](/\ ds.gt_sets <= 1
          /\ writes # <<>> => ds.gt_sets = 1
          /\ pc \in {"loop", "reshape", "crop", "place", "done"} => ds.gt_sets = 1)
    /\ [][ds.gt_sets = 1 => (ds'.gt = ds.gt /\ ds'.gt_sets = 1)]_vars

GeoTransformOnceWitness ==
    /\ pc = "done"
    /\ Len(writes) = 4
    /\ ds.gt_sets = 1
    /\ ds.gt = <<0, 1, 0, 0, 0, -1>>

SourcePlace(x, y) ==
    <<index["known_lon"] + index["dx"] * (x - index["known_x"]),
      index["known_lat"] + index["dy"] * (y - index["known_y"])>>

RasterPlace(gt, col, row) ==
    <<gt[1] + col * gt[2] + row * gt[3], gt[4] + col * gt[5] + row * gt[6]>>

SourceRowAt(row) == IF index["dy"] < 0 THEN row + 1 ELSE y_size - row

\* the row of the decoded band t that block row `line` holds
DecodedRowOf(t, line) == CHOOSE rr \in 1..Len(t) : t[rr] = line

(***************************************************************************)
(* C7  Geotransform orientation: the stored transform starts at the image  *)
(* of source pixel (1, 1) with pixel height dy when dy < 0, and at the     *)
(* image of (1, y_size) with pixel height -dy when dy >= 0; the height is  *)
(* never positive; and every raster pixel (col, row) maps to the place the *)
(* source transform gives the source pixel written there, (col + 1,        *)
(* row + 1) for dy < 0 and (col + 1, y_size - row) for dy >= 0.            *)
(***************************************************************************)
GeoTransformOrientation ==
    ds.gt_sets > 0 =>
        LET gt == ds.gt
        IN  /\ gt[2] = index["dx"]
            /\ gt[3] = 0
            /\ gt[5] = 0
            /\ gt[6] <= 0
            /\ index["dy"] < 0 => (<<gt[1], gt[4]>> = SourcePlace(1, 1) /\ gt[6] = index["dy"])
            /\ index["dy"] >= 0 =>
                 (<<gt[1], gt[4]>> = SourcePlace(1, y_size) /\ gt[6] = -index["dy"])
            /\ \A col \in 0..(x_size - 1), row \in 0..(y_size - 1) :
                 RasterPlace(gt, col, row) = SourcePlace(col + 1, SourceRowAt(row))
            /\ \A k \in 1..Len(writes) :
                 LET w == writes[k]
                     t == DecodedOf(FileData(w.path))[w.band]
                 IN  \A r \in 1..w.ysize, c \in 1..w.xsize :
                        \* the sample of source pixel (x_start + c - 1, y_start + rr - 1)
                        \* lands on raster pixel (x_off + c - 1, y_off + r - 1)
                        /\ w.bounds[1] + c - 1 = (w.x_off + c - 1) + 1
                        /\ w.bounds[3] + DecodedRowOf(t, w.data[r]) - 1
                             = SourceRowAt(w.y_off + r - 1)

GeoTransformOrientationWitness ==
    /\ pc = "done"
    /\ index["dy"] = 1
    /\ index["dx"] = 3
    /\ index["known_x"] = 2
    /\ index["known_y"] = 3
    /\ y_size = 4
    /\ Len(writes) = 2
    /\ ds.gt = <<7, 3, 0, -4, 0, -1>>

IsBorderCell(k) ==
    LET r == ((k - 1) \div FullCols) % FullRows
        c == (k - 1) % FullCols
    IN  \/ r < index["tile_bdr"]
        \/ r >= FullRows - index["tile_bdr"]
        \/ c < index["tile_bdr"]
        \/ c >= FullCols - index["tile_bdr"]

BorderVariants(data) ==
    {[k \in 1..Len(data) |-> IF IsBorderCell(k) THEN v ELSE data[k]] : v \in {0, 255}}
    \cup {[data EXCEPT ![k] = (@ + 1) % 256] : k \in {j \in 1..Len(data) : IsBorderCell(j)}}

(***************************************************************************)
(* C8  Border stripping: the cropped tile has shape (tile_z, tile_y,       *)
(* tile_x), its element [b][r][c] is the sample [b][r + tile_bdr][c +      *)
(* tile_bdr] of the payload read as a (tile_z, tile_y + 2 tile_bdr,        *)
(* tile_x + 2 tile_bdr) array, and a payload that differs only in border   *)
(* cells gives the same tile.                                              *)
(***************************************************************************)
BorderStripping ==
    (pc = "place" /\ index["wordsize"] = 1 /\ ~index["signed"]) =>
        LET data == FileData(tile_paths[i])
        IN  /\ Len(tile) = index["tile_z"]
            /\ \A b \in 1..index["tile_z"] :
                 /\ Len(tile[b]) = index["tile_y"]
                 /\ \A r \in 1..index["tile_y"] :
                      /\ Len(tile[b][r]) = index["tile_x"]
                      /\ \A c \in 1..index["tile_x"] :
                           tile[b][r][c] =
                             Wide(data[(b - 1) * FullRows * FullCols
                                       + (r + index["tile_bdr"] - 1) * FullCols
                                       + (c + index["tile_bdr"])])
            /\ \A alt \in BorderVariants(data) : DecodedOf(alt) = tile

BorderStrippingWitness ==
    /\ pc = "place"
    /\ index["tile_bdr"] = 1
    /\ index["tile_x"] = 2
    /\ index["tile_y"] = 2
    /\ index["tile_z"] = 1
    /\ Len(FileData(tile_paths[i])) = 16
    /\ tile = <<<<<<Wide(6), Wide(7)>>, <<Wide(10), Wide(11)>>>>>>

(***************************************************************************)
(* C9  Canvas sizing: once the canvas size is computed, x_size is the      *)
(* largest second field and y_size the largest fourth field of the tile    *)
(* file names (fields of filename_digits decimal digits), and the raster   *)
(* is created with that size; with no tile file the run fails before any   *)
(* raster is created.                                                      *)
(***************************************************************************)
CanvasSizing ==
    /\ (pc \notin BeforeCanvas /\ (pc # "failed" \/ ds.state # "none")) =>
         /\ TileNames # {}
         /\ x_size = Max({NameField(n, 2) : n \in TileNames})
         /\ y_size = Max({NameField(n, 4) : n \in TileNames})
         /\ ds.state # "none" => (ds.x_size = x_size /\ ds.y_size = y_size)
         /\ \A k \in 1..Len(tile_bounds) :
              tile_bounds[k] = [f \in 1..4 |-> NameField(tile_paths[k], f)]
    /\ (TileNames = {} /\ pc \notin BeforeCanvas) => (pc = "failed" /\ ds.state = "none")

CanvasSizingWitness ==
    /\ pc = "geotransform"
    /\ index["filename_digits"] = 5
    /\ Range(tile_bounds) = {<<1, 3, 1, 3>>, <<4, 6, 1, 3>>}
    /\ x_size = 6
    /\ y_size = 3
    /\ ds.x_size = 6
    /\ ds.y_size = 3

(***************************************************************************)
(* C10  Writes stay inside the canvas: when every tile's bounds start at 1 *)
(* or above and match the tile size, every block written has offsets >= 0  *)
(* and ends within x_size and y_size.                                      *)
(***************************************************************************)
WritesInsideCanvas ==
    (\A k \in 1..Len(tile_bounds) : WellFormed(tile_bounds[k])) =>
        \A k \in 1..Len(writes) :
            /\ 0 <= writes[k].x_off
            /\ 0 <= writes[k].y_off
            /\ writes[k].x_off + index["tile_x"] <= x_size
            /\ writes[k].y_off + index["tile_y"] <= y_size

WritesInsideCanvasWitness ==
    /\ pc = "done"
    /\ \A k \in 1..Len(tile_bounds) : WellFormed(tile_bounds[k])
    /\ index["dy"] >= 0
    /\ Len(tile_paths) = 2
    /\ \E k \in 1..Len(writes) :
         /\ writes[k].y_off > 0
         /\ writes[k].y_off + index["tile_y"] = y_size
    /\ \E k \in 1..Len(writes) : writes[k].x_off + index["tile_x"] = x_size

====
